---- MODULE Spec2Model ----
(***************************************************************************)
(* CareCompanion front end: the document-processing workflow of App.jsx    *)
(* (file selection, submission, progress ticker, success / failure         *)
(* outcome, reset) together with the FileUpload, ErrorMessage and          *)
(* CarePlanDisplay affordances that trigger it.                            *)
(*                                                                         *)
(* React state is modelled by one variable per useState hook.  Every       *)
(* action is one event handler run to completion (JavaScript is single     *)
(* threaded, a handler is never interleaved with another one); the await   *)
(* in handleSubmit splits that handler into the part before the request    *)
(* is issued and the continuation run when the request settles.            *)
(***************************************************************************)
EXTENDS Integers, Sequences, FiniteSets, TLC

\* ------------------------------------------------------------------ bounds
\* The largest number, in thousandths, of the range the number formatting is
\* exercised on (1000 is a confidence score of 1.0).
NumberRange == 1000
\* Requests that may be outstanding at once before the model stops issuing.
MaxPending == 2
\* setInterval timers that may be alive at once before the model stops
\* issuing requests (every request starts one timer).
MaxIntervals == 2

\* ------------------------------------------------------------- JS values
\* null / undefined / a missing field.
Null == "<null>"

\* JavaScript truthiness of a string-or-null value.
Truthy(v) == v # Null /\ v # ""

\* JavaScript a || b.
JsOr(a, b) == IF Truthy(a) THEN a ELSE b

\* String.prototype.startsWith over strings held as character sequences.
StartsWith(s, prefix) ==
    /\ Len(s) >= Len(prefix)
    /\ SubSeq(s, 1, Len(prefix)) = prefix

ImagePrefix == <<"i", "m", "a", "g", "e", "/">>

\* The File objects a user can offer: name |-> declared media type.
Files == {"scan.png", "photo.jpg", "notes.txt", "blob"}

FileType(f) ==
    CASE f = "scan.png"  -> <<"i", "m", "a", "g", "e", "/", "p", "n", "g">>
      [] f = "photo.jpg" -> <<"i", "m", "a", "g", "e", "/", "j", "p", "e", "g">>
      [] f = "notes.txt" -> <<"t", "e", "x", "t", "/", "p", "l", "a", "i", "n">>
      [] OTHER           -> <<>>

\* event.target.files[0] / event.dataTransfer.files[0]: a file or undefined.
FileOrNone == Files \cup {Null}

\* An optional JSON value: absent (undefined / null) or present.
None == << >>
Some(x) == << x >>
IsSome(o) == o # None
Get(o) == o[1]

\* An optional JSON array: absent, empty, or holding the given items.
OptArrays(items) == {None, Some(<< >>), Some(items)}

\* response.data.care_plan when present: six independently optional arrays.
CarePlans ==
    [ medications            : OptArrays(<<"Lisinopril">>),
      action_items           : OptArrays(<<"Take Morning Medication">>),
      simplified_terms       : OptArrays(<<"Hypertension">>),
      lifestyle_tips         : OptArrays(<<"Monitor blood pressure">>),
      follow_up_instructions : OptArrays(<<"Schedule follow-up">>),
      emergency_contacts     : OptArrays(<<"Call 911">>) ]

\* A JSON number, held in thousandths: 0.947 is 947, 3.2 is 3200, 123.4 is
\* 123400.  The payload's numbers (a score in [0, 1], seconds, dollars) are
\* not negative.
Thousandths(units, fraction) == units * 1000 + fraction

\* One entry of cost_savings: every field but the medication is optional.
CostSavingsEntries ==
    [ medication        : {"Atorvastatin"},
      generic_available : {None, Some(FALSE), Some(TRUE)},
      generic_name      : {None, Some("Atorvastatin Calcium")},
      savings_tips      : {None, Some(<<"Ask for a 90-day supply">>)},
      discount_programs : {None, Some(<<"GoodRx">>)} ]

\* response.data.agent_results.resource.result when present.
ResourceResults ==
    [ cost_savings      : {None, Some(<< >>)}
                              \cup {Some(<<entry>>) : entry \in CostSavingsEntries},
      total_potential_savings : {None},
      support_resources : OptArrays(<<"American Heart Association">>) ]

\* response.data.agent_results: absent, or present with resource absent,
\* or with resource.result absent, or with a resource result.
AgentResults ==
    {None, Some([resource |-> None]), Some([resource |-> Some([result |-> None])])}
    \cup {Some([resource |-> Some([result |-> Some(r)])]) : r \in ResourceResults}

\* Every decoded success payload (response.data) the display can be given.
\* Here the two header numbers are those of the success test and the
\* savings total is absent; FormatPayloads below varies the numbers.
AllPayloads ==
    [ care_plan     : {None} \cup {Some(c) : c \in CarePlans},
      agent_results : AgentResults,
      confidence_score        : {Some(Thousandths(0, 950))},
      processing_time_seconds : {Some(Thousandths(2, 500))} ]

\* The payload of the success test: every care_plan array filled, no
\* agent_results.
PlanLisinopril ==
    [ care_plan |->
        Some([ medications            |-> Some(<<"Lisinopril">>),
               action_items           |-> Some(<<"Take Morning Medication">>),
               simplified_terms       |-> Some(<<"Hypertension">>),
               lifestyle_tips         |-> Some(<<"Monitor blood pressure">>),
               follow_up_instructions |-> Some(<<"Schedule follow-up">>),
               emergency_contacts     |-> Some(<<"Call 911">>) ]),
      agent_results |-> None,
      confidence_score        |-> Some(Thousandths(0, 950)),
      processing_time_seconds |-> Some(Thousandths(2, 500)) ]

\* A payload whose care_plan has no medications field, with resources.
PlanNoMedications ==
    [ care_plan |->
        Some([ medications            |-> None,
               action_items           |-> Some(<<"Take Morning Medication">>),
               simplified_terms       |-> Some(<< >>),
               lifestyle_tips         |-> Some(<<"Monitor blood pressure">>),
               follow_up_instructions |-> None,
               emergency_contacts     |-> Some(<<"Call 911">>) ]),
      agent_results |->
        Some([resource |-> Some([result |->
            Some([ cost_savings      |->
                       Some(<<[ medication        |-> "Atorvastatin",
                                generic_available |-> Some(TRUE),
                                generic_name      |-> Some("Atorvastatin Calcium"),
                                savings_tips      |-> Some(<<"Ask for a 90-day supply">>),
                                discount_programs |-> Some(<<"GoodRx">>) ]>>),
                   total_potential_savings |-> Some(Thousandths(123, 400)),
                   support_resources |-> None ])])]),
      confidence_score        |-> Some(Thousandths(0, 947)),
      processing_time_seconds |-> Some(Thousandths(3, 200)) ]

\* The numbers the formatting is exercised on: every thousandth up to
\* NumberRange, and the three values the specification quotes.
Numbers ==
    (0..NumberRange)
        \cup {Thousandths(0, 947), Thousandths(3, 200), Thousandths(123, 400)}

OptNumbers == {None} \cup {Some(n) : n \in Numbers}

\* PlanNoMedications with its three numbers replaced.
WithNumbers(confidence, seconds, total) ==
    LET resource == Get(PlanNoMedications.agent_results).resource
        resourceResult == Get(Get(resource).result)
    IN  [ PlanNoMedications EXCEPT
            !.confidence_score = confidence,
            !.processing_time_seconds = seconds,
            !.agent_results =
                Some([resource |-> Some([result |->
                    Some([resourceResult EXCEPT
                            !.total_potential_savings = total])])]) ]

\* Success payloads that differ in one of their numbers: each of the three
\* in turn ranges over OptNumbers while the other two keep their value.
FormatPayloads ==
    {WithNumbers(n, Some(Thousandths(3, 200)), Some(Thousandths(123, 400)))
        : n \in OptNumbers}
    \cup {WithNumbers(Some(Thousandths(0, 947)), n, Some(Thousandths(123, 400)))
        : n \in OptNumbers}
    \cup {WithNumbers(Some(Thousandths(0, 947)), Some(Thousandths(3, 200)), n)
        : n \in OptNumbers}

\* The success payloads the collaborator answers with during a session.
Payloads == {PlanLisinopril, PlanNoMedications}

\* result when no care plan is installed (useState(null), setResult(null)).
NoResult == [absent |-> TRUE]

\* -------------------------------------------------------- failure values
\* What axios.post rejects with.  response: the server answered with an
\* error status (data is its decoded body, possibly without message/detail);
\* request: the request was sent; message: the Error's own message.
MkErr(hasResponse, hasData, dataMessage, dataDetail, hasRequest, message) ==
    [ hasResponse |-> hasResponse, hasData |-> hasData,
      dataMessage |-> dataMessage, dataDetail |-> dataDetail,
      hasRequest  |-> hasRequest,  message    |-> message ]

StatusMsg == "Request failed with status code 413"

Errors ==
    { MkErr(TRUE, TRUE,  Null, "File too large", TRUE, StatusMsg),
      MkErr(TRUE, TRUE,  "Invalid file type", Null, TRUE, StatusMsg),
      MkErr(TRUE, TRUE,  "Invalid file type", "File too large", TRUE, StatusMsg),
      MkErr(TRUE, TRUE,  "", "File too large", TRUE, StatusMsg),
      MkErr(TRUE, TRUE,  Null, Null, TRUE, StatusMsg),
      MkErr(TRUE, FALSE, Null, Null, TRUE, StatusMsg),
      MkErr(FALSE, FALSE, Null, Null, TRUE, "Network Error"),
      MkErr(FALSE, FALSE, Null, Null, TRUE, "timeout of 30000ms exceeded"),
      MkErr(FALSE, FALSE, Null, Null, TRUE, Null),
      MkErr(FALSE, FALSE, Null, Null, FALSE, "Invalid URL"),
      MkErr(FALSE, FALSE, Null, Null, FALSE, ""),
      MkErr(FALSE, FALSE, Null, Null, FALSE, Null) }

NoFileMessage  == "Please select a file first."
GenericMessage == "An error occurred. Please try again."
NetworkMessage == "Unable to connect to the server. Please check your connection."

\* ErrorMessageOf with the err.request test made before the err.response
\* test (an axios error that has a response has a request too).
ErrorMessageOf_RequestFirst(err) ==
    IF err.hasRequest
    THEN NetworkMessage
    ELSE IF err.hasResponse
    THEN LET dataMessage == IF err.hasData THEN err.dataMessage ELSE Null
             dataDetail  == IF err.hasData THEN err.dataDetail ELSE Null
         IN  JsOr(dataMessage, JsOr(dataDetail, GenericMessage))
    ELSE JsOr(err.message, GenericMessage)

\* ErrorMessageOf with the no-response branch passing the failure's own
\* message through.
ErrorMessageOf_OwnMessage(err) ==
    IF err.hasResponse
    THEN LET dataMessage == IF err.hasData THEN err.dataMessage ELSE Null
             dataDetail  == IF err.hasData THEN err.dataDetail ELSE Null
         IN  JsOr(dataMessage, JsOr(dataDetail, GenericMessage))
    ELSE IF err.hasRequest
    THEN JsOr(err.message, NetworkMessage)
    ELSE JsOr(err.message, GenericMessage)

\* ErrorMessageOf with the last branch ignoring the failure's own message.
ErrorMessageOf_GenericOnly(err) ==
    IF err.hasResponse
    THEN LET dataMessage == IF err.hasData THEN err.dataMessage ELSE Null
             dataDetail  == IF err.hasData THEN err.dataDetail ELSE Null
         IN  JsOr(dataMessage, JsOr(dataDetail, GenericMessage))
    ELSE IF err.hasRequest
    THEN NetworkMessage
    ELSE GenericMessage

\* The catch block of handleSubmit: the message shown for a rejection.
ErrorMessageOf(err) ==
    IF err.hasResponse
    THEN LET dataMessage == IF err.hasData THEN err.dataMessage ELSE Null
             dataDetail  == IF err.hasData THEN err.dataDetail ELSE Null
         IN  JsOr(dataMessage, JsOr(dataDetail, GenericMessage))
    ELSE IF err.hasRequest
    THEN NetworkMessage
    ELSE JsOr(err.message, GenericMessage)

\* The ticker's updater capped at completion instead of below it.
TickUpdate_CapAt100(prev) == IF prev + 10 < 100 THEN prev + 10 ELSE 100

\* The progress ticker's updater: prev => Math.min(prev + 10, 90).
TickUpdate(prev) == IF prev + 10 < 90 THEN prev + 10 ELSE 90

Tabs == {"overview", "medications", "actions", "education", "resources"}

\* ------------------------------------------------------------------ state
VARIABLES
    selectedFile,    \* App: useState(null)
    isLoading,       \* App: useState(false)
    result,          \* App: useState(null)
    error,           \* App: useState(null)
    uploadProgress,  \* App: useState(0)
    pending,         \* requests issued by axios.post and not yet settled,
                     \* each with the file its handleSubmit closure appended
    intervals,       \* number of setInterval timers not yet cleared
    inputValue,      \* FileUpload: the <input type="file"> element's value
    activeTab,       \* CarePlanDisplay: useState('overview')
    failedFile,      \* the file carried by the request that failed last
    progressWrites   \* the values the handler that ran last passed to
                     \* setUploadProgress, in order

vars == << selectedFile, isLoading, result, error, uploadProgress,
           pending, intervals, inputValue, activeTab, failedFile,
           progressWrites >>

TypeOK ==
    /\ selectedFile \in FileOrNone
    /\ isLoading \in BOOLEAN
    /\ result \in AllPayloads \cup FormatPayloads \cup Payloads \cup {NoResult}
    /\ error \in STRING
    /\ uploadProgress \in 0..100
    /\ pending \in Seq([file : Files])
    /\ Len(pending) <= MaxPending
    /\ intervals \in 0..MaxIntervals
    /\ inputValue \in FileOrNone
    /\ activeTab \in Tabs
    /\ failedFile \in FileOrNone
    /\ progressWrites \in Seq(0..100)

Init ==
    /\ selectedFile = Null
    /\ isLoading = FALSE
    /\ result = NoResult
    /\ error = Null
    /\ uploadProgress = 0
    /\ pending = << >>
    /\ intervals = 0
    /\ inputValue = Null
    /\ activeTab = "overview"
    /\ failedFile = Null
    /\ progressWrites = << >>

\* The active tab held above CarePlanDisplay, surviving its unmount.
TabAfter_Kept(newResult) == activeTab

\* CarePlanDisplay is mounted only while result is set ({result && ...});
\* a fresh mount starts from useState('overview').
TabAfter(newResult) ==
    IF newResult = NoResult THEN "overview" ELSE activeTab

\* ------------------------------------------------------------- App.jsx
\* handleFileSelect without the setResult(null) call.
HandleFileSelect_KeepResult(file) ==
    /\ selectedFile' = file
    /\ error' = Null
    /\ progressWrites' = << >>
    /\ UNCHANGED << isLoading, result, activeTab, uploadProgress, pending,
                    intervals, failedFile >>

\* handleFileSelect(file)
HandleFileSelect(file) ==
    /\ selectedFile' = file
    /\ error' = Null
    /\ result' = NoResult
    /\ activeTab' = TabAfter(NoResult)
    /\ progressWrites' = << >>
    /\ UNCHANGED << isLoading, uploadProgress, pending, intervals, failedFile >>

\* handleSubmit without the return in the no-file branch: the request is
\* issued whether or not a file is selected.
HandleSubmit_NoEarlyReturn ==
    /\ Len(pending) < MaxPending
    /\ intervals < MaxIntervals
    /\ result' = NoResult
    /\ error' = Null
    /\ isLoading' = TRUE
    /\ uploadProgress' = 0
    /\ progressWrites' = << 0 >>
    /\ intervals' = intervals + 1
    /\ pending' = Append(pending, [file |-> selectedFile])
    /\ activeTab' = TabAfter(NoResult)
    /\ UNCHANGED << selectedFile, inputValue, failedFile >>

\* handleSubmit without the setResult(null) before the request.
HandleSubmit_KeepResult ==
    IF ~Truthy(selectedFile)
    THEN /\ error' = NoFileMessage
         /\ progressWrites' = << >>
         /\ UNCHANGED << selectedFile, isLoading, result, uploadProgress,
                         pending, intervals, inputValue, activeTab, failedFile >>
    ELSE /\ Len(pending) < MaxPending
         /\ intervals < MaxIntervals
         /\ error' = Null
         /\ isLoading' = TRUE
         /\ uploadProgress' = 0
         /\ progressWrites' = << 0 >>
         /\ intervals' = intervals + 1
         /\ pending' = Append(pending, [file |-> selectedFile])
         /\ UNCHANGED << selectedFile, result, inputValue, activeTab,
                         failedFile >>

\* handleSubmit without the setError(null) before the request.
HandleSubmit_KeepError ==
    IF ~Truthy(selectedFile)
    THEN /\ error' = NoFileMessage
         /\ progressWrites' = << >>
         /\ UNCHANGED << selectedFile, isLoading, result, uploadProgress,
                         pending, intervals, inputValue, activeTab, failedFile >>
    ELSE /\ Len(pending) < MaxPending
         /\ intervals < MaxIntervals
         /\ result' = NoResult
         /\ isLoading' = TRUE
         /\ uploadProgress' = 0
         /\ progressWrites' = << 0 >>
         /\ intervals' = intervals + 1
         /\ pending' = Append(pending, [file |-> selectedFile])
         /\ activeTab' = TabAfter(NoResult)
         /\ UNCHANGED << selectedFile, error, inputValue, failedFile >>

\* handleSubmit(), up to and including the axios.post call.
HandleSubmit ==
    IF ~Truthy(selectedFile)
    THEN /\ error' = NoFileMessage
         /\ progressWrites' = << >>
         /\ UNCHANGED << selectedFile, isLoading, result, uploadProgress,
                         pending, intervals, inputValue, activeTab, failedFile >>
    ELSE /\ Len(pending) < MaxPending
         /\ intervals < MaxIntervals
         /\ result' = NoResult
         /\ error' = Null
         /\ isLoading' = TRUE
         /\ uploadProgress' = 0
         /\ progressWrites' = << 0 >>
         /\ intervals' = intervals + 1
         /\ pending' = Append(pending, [file |-> selectedFile])
         /\ activeTab' = TabAfter(NoResult)
         /\ UNCHANGED << selectedFile, inputValue, failedFile >>

\* handleReset that leaves the error message in place.
HandleReset_KeepError ==
    /\ selectedFile' = Null
    /\ result' = NoResult
    /\ uploadProgress' = 0
    /\ progressWrites' = << 0 >>
    /\ activeTab' = TabAfter(NoResult)
    /\ UNCHANGED << isLoading, error, pending, intervals, failedFile >>

\* handleReset that also switches the loading flag off.
HandleReset_StopsLoading ==
    /\ selectedFile' = Null
    /\ result' = NoResult
    /\ error' = Null
    /\ isLoading' = FALSE
    /\ uploadProgress' = 0
    /\ progressWrites' = << 0 >>
    /\ activeTab' = TabAfter(NoResult)
    /\ UNCHANGED << pending, intervals, failedFile >>

\* handleReset()
HandleReset ==
    /\ selectedFile' = Null
    /\ result' = NoResult
    /\ error' = Null
    /\ uploadProgress' = 0
    /\ progressWrites' = << 0 >>
    /\ activeTab' = TabAfter(NoResult)
    /\ UNCHANGED << isLoading, pending, intervals, failedFile >>

RemoveAt(s, i) == SubSeq(s, 1, i - 1) \o SubSeq(s, i + 1, Len(s))

\* The success continuation without the setResult(response.data) call.
ResponseSuccess_NoInstall(i, data) ==
    /\ i \in 1..Len(pending)
    /\ intervals' = intervals - 1
    /\ isLoading' = FALSE
    /\ progressWrites' = << 100, 0 >>
    /\ uploadProgress' = progressWrites'[Len(progressWrites')]
    /\ pending' = RemoveAt(pending, i)
    /\ UNCHANGED << selectedFile, result, activeTab, error, inputValue,
                    failedFile >>

\* The success continuation whose finally block leaves uploadProgress alone.
ResponseSuccess_KeepProgress(i, data) ==
    /\ i \in 1..Len(pending)
    /\ intervals' = intervals - 1
    /\ result' = data
    /\ isLoading' = FALSE
    /\ progressWrites' = << 100 >>
    /\ uploadProgress' = progressWrites'[Len(progressWrites')]
    /\ pending' = RemoveAt(pending, i)
    /\ activeTab' = TabAfter(result)
    /\ UNCHANGED << selectedFile, error, inputValue, failedFile >>

\* handleSubmit(), continuation after the await when the request resolves:
\* the rest of the try block, then the finally block.
ResponseSuccess(i, data) ==
    /\ i \in 1..Len(pending)
    /\ intervals' = intervals - 1
    /\ result' = data
    /\ isLoading' = FALSE
    /\ progressWrites' = << 100, 0 >>
    /\ uploadProgress' = progressWrites'[Len(progressWrites')]
    /\ pending' = RemoveAt(pending, i)
    /\ activeTab' = TabAfter(result)
    /\ UNCHANGED << selectedFile, error, inputValue, failedFile >>

\* The rejection continuation with setIsLoading(false) / setUploadProgress(0)
\* at the end of the try block instead of in a finally block.
ResponseFailure_NoFinally(i, err) ==
    /\ i \in 1..Len(pending)
    /\ error' = ErrorMessageOf(err)
    /\ pending' = RemoveAt(pending, i)
    /\ failedFile' = pending[i].file
    /\ progressWrites' = << >>
    /\ UNCHANGED << selectedFile, isLoading, uploadProgress, result,
                    intervals, inputValue, activeTab >>

\* handleSubmit(), continuation after the await when the request rejects:
\* the catch block, then the finally block.
ResponseFailure(i, err) ==
    /\ i \in 1..Len(pending)
    /\ error' = ErrorMessageOf(err)
    /\ isLoading' = FALSE
    /\ uploadProgress' = 0
    /\ progressWrites' = << 0 >>
    /\ pending' = RemoveAt(pending, i)
    /\ failedFile' = pending[i].file
    /\ UNCHANGED << selectedFile, result, intervals, inputValue, activeTab >>

\* One firing of a live progress timer.
Tick ==
    /\ intervals > 0
    /\ uploadProgress' = TickUpdate(uploadProgress)
    /\ progressWrites' = << uploadProgress' >>
    /\ UNCHANGED << selectedFile, isLoading, result, error, pending,
                    intervals, inputValue, activeTab, failedFile >>

\* The Analyze button enabled whenever a file is selected, loading or not.
AnalyzeEnabled_NoLoadingCheck == Truthy(selectedFile)

\* The Analyze button disabled only when both tests hold
\* (!selectedFile && isLoading).
AnalyzeEnabled_EitherTest == Truthy(selectedFile) \/ ~isLoading

\* The Analyze button: onClick={handleSubmit},
\* disabled={!selectedFile || isLoading}.
AnalyzeEnabled == Truthy(selectedFile) /\ ~isLoading

AnalyzeClick ==
    /\ AnalyzeEnabled
    /\ HandleSubmit

\* ErrorMessage is rendered while error is set; Try Again is onRetry.
ErrorShown == Truthy(error)

RetryClick ==
    /\ ErrorShown
    /\ HandleSubmit

\* ErrorMessage: Start Over is onReset.
StartOverClick ==
    /\ ErrorShown
    /\ HandleReset
    /\ UNCHANGED inputValue

\* CarePlanDisplay is rendered while result is set.
ResultShown == result # NoResult

\* CarePlanDisplay: Process Another Document is onReset.
ProcessAnotherClick ==
    /\ ResultShown
    /\ HandleReset
    /\ UNCHANGED inputValue

\* A tab button that also clears the progress value.
TabClick_ResetsProgress(tab) ==
    /\ ResultShown
    /\ activeTab' = tab
    /\ uploadProgress' = 0
    /\ progressWrites' = << 0 >>
    /\ UNCHANGED << selectedFile, isLoading, result, error, pending,
                    intervals, inputValue, failedFile >>

\* CarePlanDisplay: a tab button, onClick={() => setActiveTab(tab)}.
TabClick(tab) ==
    /\ ResultShown
    /\ activeTab' = tab
    /\ progressWrites' = << >>
    /\ UNCHANGED << selectedFile, isLoading, result, error, uploadProgress,
                    pending, intervals, inputValue, failedFile >>

\* --------------------------------------------------------- FileUpload.jsx
\* handleFileChange with the media type test of handleDrop.
PickerChange_ImageOnly(file) ==
    /\ inputValue' = file
    /\ IF Truthy(file) /\ StartsWith(FileType(file), ImagePrefix)
       THEN HandleFileSelect(file)
       ELSE /\ progressWrites' = << >>
            /\ UNCHANGED << selectedFile, isLoading, result, error,
                            uploadProgress, pending, intervals, activeTab,
                            failedFile >>

\* handleFileChange: the picker's change event; the browser has already
\* put the chosen file in the input element.
PickerChange(file) ==
    /\ inputValue' = file
    /\ IF Truthy(file)
       THEN HandleFileSelect(file)
       ELSE /\ progressWrites' = << >>
            /\ UNCHANGED << selectedFile, isLoading, result, error,
                            uploadProgress, pending, intervals, activeTab,
                            failedFile >>

\* handleDrop without the media type test.
Drop_NoTypeCheck(file) ==
    /\ UNCHANGED inputValue
    /\ IF Truthy(file)
       THEN HandleFileSelect(file)
       ELSE /\ progressWrites' = << >>
            /\ UNCHANGED << selectedFile, isLoading, result, error,
                            uploadProgress, pending, intervals, activeTab,
                            failedFile >>

\* handleDrop
Drop(file) ==
    /\ UNCHANGED inputValue
    /\ IF Truthy(file) /\ StartsWith(FileType(file), ImagePrefix)
       THEN HandleFileSelect(file)
       ELSE /\ progressWrites' = << >>
            /\ UNCHANGED << selectedFile, isLoading, result, error,
                            uploadProgress, pending, intervals, activeTab,
                            failedFile >>

\* handleReset of FileUpload: the remove button, rendered while a file is
\* selected.
RemoveFileClick ==
    /\ Truthy(selectedFile)
    /\ HandleReset
    /\ inputValue' = Null

\* ---------------------------------------------------- CarePlanDisplay.jsx
\* data.care_plan?.<field>
CarePlanField(data, field) ==
    IF IsSome(data.care_plan) THEN Get(data.care_plan)[field] ELSE None

\* data.agent_results?.resource?.result?.<field>
ResourceField(data, field) ==
    IF ~IsSome(data.agent_results) THEN None
    ELSE IF ~IsSome(Get(data.agent_results).resource) THEN None
    ELSE IF ~IsSome(Get(Get(data.agent_results).resource).result) THEN None
    ELSE Get(Get(Get(data.agent_results).resource).result)[field]

\* The guard of every render function, !array?.length: the array is absent
\* or empty.
NoLength(array) == ~IsSome(array) \/ Len(Get(array)) = 0

\* What evaluating a piece of JSX gives: the section elements it produced,
\* or an exception (a TypeError from reading a property of undefined).
Rendered(sections) == [throws |-> FALSE, sections |-> sections]
Throws == [throws |-> TRUE, sections |-> << >>]

\* What most render functions return: null (no output) behind the guard,
\* else one section element with the array's items mapped in order.
RenderSection(name, array) ==
    IF NoLength(array)
    THEN Rendered(<< >>)
    ELSE Rendered(<< [section |-> name, items |-> Get(array)] >>)

renderMedications(data) ==
    RenderSection("medications", CarePlanField(data, "medications"))

renderActionItems(data) ==
    RenderSection("action_items", CarePlanField(data, "action_items"))

renderSimplifiedTerms(data) ==
    RenderSection("simplified_terms", CarePlanField(data, "simplified_terms"))

renderLifestyleTips(data) ==
    RenderSection("lifestyle_tips", CarePlanField(data, "lifestyle_tips"))

renderFollowUp(data) ==
    RenderSection("follow_up_instructions",
                  CarePlanField(data, "follow_up_instructions"))

renderEmergencyContacts(data) ==
    RenderSection("emergency_contacts", CarePlanField(data, "emergency_contacts"))

\* JavaScript number || fallback: an absent number and 0 are falsy.
NumberOr(number, fallback) ==
    IF IsSome(number) /\ Get(number) # 0 THEN Get(number) ELSE fallback

Pow10(k) == IF k = 0 THEN 1 ELSE IF k = 1 THEN 10 ELSE IF k = 2 THEN 100 ELSE 1000

\* Math.floor in place of Math.round.
RoundPercent_Floor(x) == x \div 10

\* Math.round(x * 100) for x given in thousandths: the integer nearest to
\* x * 100, a tie going up (Math.round is floor(y + 0.5)).
RoundPercent(x) == (x + 5) \div 10

\* Number.prototype.toFixed(digits), digits in 0..2, for x >= 0 given in
\* thousandths: the decimal text of the integer n for which n / 10^digits
\* is nearest to x (the larger n on a tie), with exactly that many digits
\* after the point.
ToFixed(x, digits) ==
    LET unit == Pow10(3 - digits)
        n == (x + unit \div 2) \div unit
    IN  [ whole    |-> n \div Pow10(digits),
          decimals |-> [k \in 1..digits |-> (n \div Pow10(digits - k)) % 10] ]

\* The plan-meta header: "Confidence: <n>%" and "Processed in <t>s"; with
\* processing_time_seconds absent the optional call gives undefined and no
\* number is printed.
PlanMeta(data) ==
    [ confidence |-> RoundPercent(NumberOr(data.confidence_score, 0)),
      processed  |-> IF IsSome(data.processing_time_seconds)
                     THEN Some(ToFixed(Get(data.processing_time_seconds), 1))
                     ELSE None ]

\* One savings card without its two lists: the generic line is the <p>
\* rendered behind saving.generic_available &&, holding the fixed text and
\* {saving.generic_name}, which prints nothing when the name is absent.
SavingsCard(saving) ==
    [ medication |-> saving.medication,
      generic    |-> IF IsSome(saving.generic_available)
                          /\ Get(saving.generic_available)
                     THEN Some([ label |-> "Generic Available: Yes - ",
                                 name  |-> saving.generic_name ])
                     ELSE None ]

\* renderCostSavings: the total, then one card per entry.  It maps
\* saving.savings_tips and saving.discount_programs of every entry without
\* a guard: .map of undefined throws.
renderCostSavings(data) ==
    LET costSavings == ResourceField(data, "cost_savings")
        totalSavings == NumberOr(ResourceField(data, "total_potential_savings"), 0)
    IN  IF NoLength(costSavings)
        THEN Rendered(<< >>)
        ELSE IF \E k \in 1..Len(Get(costSavings)) :
                    \/ ~IsSome(Get(costSavings)[k].savings_tips)
                    \/ ~IsSome(Get(costSavings)[k].discount_programs)
        THEN Throws
        ELSE Rendered(<< [section |-> "cost_savings",
                          total   |-> ToFixed(totalSavings, 2),
                          items   |-> [k \in 1..Len(Get(costSavings)) |->
                                          SavingsCard(Get(costSavings)[k])]] >>)

renderSupportResources(data) ==
    RenderSection("support_resources", ResourceField(data, "support_resources"))

\* The children of one tab panel, in document order; an exception in any
\* child aborts the render.
Children(parts) ==
    IF \E k \in 1..Len(parts) : parts[k].throws
    THEN Throws
    ELSE Rendered(IF Len(parts) = 1 THEN parts[1].sections
                  ELSE IF Len(parts) = 2
                  THEN parts[1].sections \o parts[2].sections
                  ELSE parts[1].sections \o parts[2].sections
                           \o parts[3].sections)

\* The tab-content element: the panel of the active tab.
TabContent(data, tab) ==
    CASE tab = "overview" ->
            Children(<< renderMedications(data), renderActionItems(data),
                        renderLifestyleTips(data) >>)
      [] tab = "medications" ->
            Children(<< renderMedications(data) >>)
      [] tab = "actions" ->
            Children(<< renderActionItems(data), renderFollowUp(data),
                        renderEmergencyContacts(data) >>)
      [] tab = "education" ->
            Children(<< renderSimplifiedTerms(data), renderLifestyleTips(data) >>)
      [] tab = "resources" ->
            Children(<< renderCostSavings(data), renderSupportResources(data) >>)

\* ------------------------------------------------------------------ spec
Settle ==
    \/ \E i \in 1..Len(pending), data \in Payloads : ResponseSuccess(i, data)
    \/ \E i \in 1..Len(pending), err \in Errors : ResponseFailure(i, err)

Next ==
    \/ \E file \in FileOrNone : PickerChange(file)
    \/ \E file \in FileOrNone : Drop(file)
    \/ AnalyzeClick
    \/ RetryClick
    \/ StartOverClick
    \/ ProcessAnotherClick
    \/ RemoveFileClick
    \/ \E tab \in Tabs : TabClick(tab)
    \/ Tick
    \/ Settle

Spec == Init /\ [][Next]_vars

\* Every issued request settles: axios resolves or rejects it, at the
\* latest when its 30 s timeout expires.
FairSpec == Spec /\ WF_vars(Settle)

\* The care plan view on its own: CarePlanDisplay mounted with any payload
\* the collaborator can return, the user switching tabs.
RenderInit ==
    /\ result \in AllPayloads
    /\ selectedFile = "scan.png"
    /\ inputValue = "scan.png"
    /\ isLoading = FALSE
    /\ error = Null
    /\ uploadProgress = 0
    /\ pending = << >>
    /\ intervals = 0
    /\ activeTab = "overview"
    /\ failedFile = Null
    /\ progressWrites = << 100, 0 >>

RenderNext == \E tab \in Tabs : TabClick(tab)

RenderSpec == RenderInit /\ [][RenderNext]_vars

\* The care plan view given payloads that differ in their numbers.
FormatInit ==
    /\ result \in FormatPayloads
    /\ selectedFile = "scan.png"
    /\ inputValue = "scan.png"
    /\ isLoading = FALSE
    /\ error = Null
    /\ uploadProgress = 0
    /\ pending = << >>
    /\ intervals = 0
    /\ activeTab = "overview"
    /\ failedFile = Null
    /\ progressWrites = << 100, 0 >>

FormatSpec == FormatInit /\ [][RenderNext]_vars

\* ------------------------------------------------- derived workflow state
\* The workflow state the rendered page shows: the spinner while isLoading,
\* the care plan while result is set, the error panel while error is set,
\* the file details while a file is selected.
WorkflowState ==
    IF isLoading THEN "Submitting"
    ELSE IF ResultShown THEN "Succeeded"
    ELSE IF ErrorShown THEN "Failed"
    ELSE IF Truthy(selectedFile) THEN "DocumentSelected"
    ELSE "Idle"

\* A step that issues a request.
IssuesRequest == Len(pending') > Len(pending)

\* A step that runs handleSubmit.
SubmitStep == AnalyzeClick \/ RetryClick

\* A step that runs handleReset.
ResetStep == StartOverClick \/ ProcessAnotherClick \/ RemoveFileClick

\* ----------------------------------------------------------------- claims

\* C1: whenever no submission is in flight, no progress ticker is still
\* running (the ticker is cancelled on every exit from Submitting, on the
\* failure path as well as on the success path).
C1_NoTickerOutlivesSubmission ==
    pending = << >> => intervals = 0

\* C2: at most one submission request is in flight at any time, across
\* every interleaving of selection, drop, submit, retry, reset and
\* settlement.
C2_AtMostOneInFlight ==
    Len(pending) <= 1

\* C2 witness: a request is in flight and, since it was issued, another
\* document has been selected (so Analyze would otherwise have a file).
C2_Witness ==
    /\ Len(pending) = 1
    /\ Truthy(selectedFile)
    /\ selectedFile # pending[1].file

\* C3: no document can be selected or replaced through the picker or by
\* drag-and-drop while a submission is in flight.
C3_NoSelectionWhileSubmitting ==
    [][isLoading => ~(\E file \in Files : HandleFileSelect(file))]_vars

\* The state every reset is claimed to leave.
IdleCleared ==
    /\ selectedFile = Null
    /\ result = NoResult
    /\ error = Null
    /\ uploadProgress = 0
    /\ ~isLoading

\* C4: reset() in any reachable state, Submitting included, leaves the
\* workflow in Idle: no document, no result, no error, progress 0 and not
\* submitting.
C4_ResetYieldsIdle ==
    [][ResetStep => (IdleCleared' /\ WorkflowState' = "Idle")]_vars

\* C5: a submission is started only from DocumentSelected or from Failed,
\* never from Idle, Succeeded or Submitting.
C5_SubmittingOnlyFromSelectedOrFailed ==
    [][IssuesRequest => WorkflowState \in {"DocumentSelected", "Failed"}]_vars

\* C6: every submission that enters Submitting eventually leaves it once
\* its request settles, and the step that leaves it installs exactly one of
\* a result and a failure message.
C6_SubmissionResolvesToOneOutcome ==
    /\ isLoading ~> ~isLoading
    /\ [][(isLoading /\ ~isLoading') =>
            /\ (result' # NoResult) # Truthy(error')
            /\ WorkflowState' \in {"Succeeded", "Failed"}]_vars

\* C6 witness: a submission has left Submitting through a failure.
C6_Witness ==
    /\ ~isLoading
    /\ failedFile # Null
    /\ WorkflowState = "Failed"

\* C7: a retry from Failed re-enters Submitting carrying the document that
\* was submitted before the failure; the failure leaves the selection
\* unchanged.
C7_RetryCarriesFailedDocument ==
    [][ /\ (\E i \in 1..Len(pending), err \in Errors : ResponseFailure(i, err))
           => selectedFile' = selectedFile
        /\ (RetryClick /\ WorkflowState = "Failed" /\ error # NoFileMessage)
           => /\ IssuesRequest
              /\ isLoading'
              /\ pending'[Len(pending')].file = failedFile
              /\ selectedFile' = failedFile ]_vars

\* C8: submit() with no document selected sets the failure message to
\* "Please select a file first.", issues no request and does not enter
\* Submitting.
C8_SubmitWithoutDocument ==
    [][(SubmitStep /\ selectedFile = Null) =>
          /\ error' = "Please select a file first."
          /\ pending' = pending
          /\ intervals' = intervals
          /\ ~isLoading'
          /\ WorkflowState' = "Failed"]_vars

\* C8 witness: the no-document branch has run.
C8_Witness ==
    /\ error = "Please select a file first."
    /\ selectedFile = Null
    /\ pending = << >>

\* An error response whose body has a usable message or detail field.
HasStructuredBody(err) ==
    /\ err.hasResponse
    /\ err.hasData
    /\ (Truthy(err.dataMessage) \/ Truthy(err.dataDetail))

\* C9: an error response with an identifiable message or detail field ends
\* the submission in Failed showing exactly that text; for the body
\* {detail: "File too large"} the message is "File too large".
C9_StructuredErrorBodyShown ==
    [][\A i \in 1..Len(pending), err \in Errors :
          (ResponseFailure(i, err) /\ HasStructuredBody(err)) =>
              /\ WorkflowState' = "Failed"
              /\ error' \in {err.dataMessage, err.dataDetail} \ {Null, ""}
              /\ (~Truthy(err.dataMessage) /\ err.dataDetail = "File too large")
                    => error' = "File too large"]_vars

\* C9 witness: the rejection with body {detail: "File too large"} was shown.
C9_Witness ==
    /\ error = "File too large"
    /\ WorkflowState = "Failed"
    /\ failedFile # Null

\* C10: a request that was sent and got no response (timeout included) ends
\* in Failed with the connectivity message, whatever the failure's own
\* message is.
C10_NoResponseShowsConnectivityMessage ==
    [][\A i \in 1..Len(pending), err \in Errors :
          (ResponseFailure(i, err) /\ ~err.hasResponse /\ err.hasRequest) =>
              /\ WorkflowState' = "Failed"
              /\ error' =
                   "Unable to connect to the server. Please check your connection."]_vars

\* C10 witness: the connectivity message is shown after a failed request.
C10_Witness ==
    /\ error = "Unable to connect to the server. Please check your connection."
    /\ WorkflowState = "Failed"
    /\ failedFile # Null

\* A failure of neither case 1 (error response with a usable message or
\* detail) nor case 2 (request sent, no response).
OtherFailure(err) ==
    /\ ~HasStructuredBody(err)
    /\ ~(~err.hasResponse /\ err.hasRequest)

\* C11 as stated: every failure outside cases 1 and 2 shows the failure's
\* own message when it has one and the generic fallback only when it has
\* none.
C11_OtherFailureShowsOwnMessage ==
    [][\A i \in 1..Len(pending), err \in Errors :
          (ResponseFailure(i, err) /\ OtherFailure(err)) =>
              error' = IF Truthy(err.message)
                       THEN err.message
                       ELSE "An error occurred. Please try again."]_vars

\* C11 as amended: a failure outside cases 1 and 2 that has a response (an
\* error status whose body has no usable message or detail) shows the
\* generic fallback; one that has no response (nothing was sent) shows the
\* failure's own message when it has one and the generic fallback when it
\* has none.
C11_OtherFailureClassified ==
    [][\A i \in 1..Len(pending), err \in Errors :
          (ResponseFailure(i, err) /\ OtherFailure(err)) =>
              /\ WorkflowState' = "Failed"
              /\ error' = IF ~err.hasResponse /\ Truthy(err.message)
                          THEN err.message
                          ELSE "An error occurred. Please try again."]_vars

\* C11 witness: a failure that was never sent shows its own message.
C11_Witness ==
    /\ error = "Invalid URL"
    /\ WorkflowState = "Failed"
    /\ failedFile # Null

\* C12: the progress value is 0 in every state in which the workflow is
\* not Submitting.
C12_ProgressZeroOutsideSubmitting ==
    WorkflowState # "Submitting" => uploadProgress = 0

\* C13: while a submission is in flight the progress value stays in
\* [0, 90]; every step that raises it raises it by the fixed increment 10
\* and not beyond 90; only the arrival of a success response writes 100.
C13_TickerCappedBelowCompletion ==
    /\ [](isLoading => uploadProgress \in 0..90)
    /\ [][uploadProgress' > uploadProgress =>
             /\ Tick
             /\ uploadProgress' = uploadProgress + 10
             /\ uploadProgress' <= 90]_vars
    /\ [][(\E k \in 1..Len(progressWrites') : progressWrites'[k] = 100) =>
             \E i \in 1..Len(pending), data \in Payloads :
                 ResponseSuccess(i, data)]_vars

\* C13 witness: a submission is in flight and the ticker has reached its cap.
C13_Witness ==
    /\ isLoading
    /\ pending # << >>
    /\ uploadProgress = 90

\* C14 as stated: a success response leaves Succeeded with the progress
\* value at 100.
C14_SuccessLeavesProgress100 ==
    [][(\E i \in 1..Len(pending), data \in Payloads : ResponseSuccess(i, data))
          => (WorkflowState' = "Succeeded" /\ uploadProgress' = 100)]_vars

\* C14 as amended: processing a success response writes 100 and then, in
\* the finally block of the same handler, 0: the state left is Succeeded
\* with the progress value at 0.
C14_SuccessLeavesProgress0 ==
    [][(\E i \in 1..Len(pending), data \in Payloads : ResponseSuccess(i, data))
          => /\ WorkflowState' = "Succeeded"
             /\ progressWrites' = << 100, 0 >>
             /\ uploadProgress' = 0]_vars

\* C14 witness: a success response has just been processed.
C14_Witness ==
    /\ WorkflowState = "Succeeded"
    /\ progressWrites = << 100, 0 >>
    /\ uploadProgress = 0

\* C15: a success response installs exactly its decoded payload and the
\* care plan view is shown; an installed result is never modified
\* afterwards, only cleared as a whole by a reset, a selection or a new
\* submission.
C15_ResultInstalledAndImmutable ==
    /\ [][\A i \in 1..Len(pending), data \in Payloads :
             ResponseSuccess(i, data) => (result' = data /\ ResultShown')]_vars
    /\ [][(ResultShown /\ result' # result) =>
             /\ result' = NoResult
             /\ \/ ResetStep
                \/ SubmitStep /\ IssuesRequest
                \/ \E file \in Files : HandleFileSelect(file)]_vars

\* C15 witness: the payload of a success response is displayed.
C15_Witness ==
    /\ result = PlanLisinopril
    /\ WorkflowState = "Succeeded"
    /\ progressWrites = << 100, 0 >>

\* A selection gesture that FileUpload accepts.
AcceptedSelection(file) ==
    \/ PickerChange(file) /\ file \in Files
    \/ Drop(file) /\ file \in Files /\ StartsWith(FileType(file), ImagePrefix)

\* C16: every accepted selection makes the chosen file the selected
\* document and leaves neither a result nor an error.
C16_SelectionReplacesAndClears ==
    [][\A file \in FileOrNone :
          AcceptedSelection(file) =>
              /\ selectedFile' = file
              /\ result' = NoResult
              /\ error' = Null
              /\ ~ResultShown' /\ ~ErrorShown']_vars

\* C16 witness: a document is selected, and the error a failed request had
\* left is gone without any submission or reset having cleared it.
C16_Witness ==
    /\ Truthy(selectedFile)
    /\ failedFile # Null
    /\ selectedFile # failedFile
    /\ ~isLoading /\ ~ResultShown /\ ~ErrorShown

\* A selection gesture that FileUpload rejects.
RejectedSelection(file) ==
    \/ PickerChange(file) /\ file = Null
    \/ Drop(file) /\ (file = Null \/ ~StartsWith(FileType(file), ImagePrefix))

\* C17: a selection gesture with no file, or a drop whose media type does
\* not begin with "image/", changes nothing: document, result, error,
\* progress value and workflow state stay as they were and nothing is
\* notified to App.
C17_RejectedSelectionIgnored ==
    [][\A file \in FileOrNone :
          RejectedSelection(file) =>
              /\ UNCHANGED << selectedFile, result, error, uploadProgress,
                              isLoading, pending, intervals, activeTab >>
              /\ WorkflowState' = WorkflowState]_vars

\* C17 witness: notes.txt, which only the picker accepts, is still the
\* selected document after a later picker gesture that carried no file.
C17_Witness ==
    /\ selectedFile = "notes.txt"
    /\ inputValue = Null

\* C18: whenever a new result is installed the active tab is Overview,
\* whatever tab was active on an earlier result.
C18_NewResultStartsOnOverview ==
    [][\A i \in 1..Len(pending), data \in Payloads :
          ResponseSuccess(i, data) => activeTab' = "overview"]_vars

\* C18 witness: a result has just been installed and its view is on
\* Overview.
C18_Witness ==
    /\ ResultShown
    /\ progressWrites = << 100, 0 >>
    /\ activeTab = "overview"

\* C19: a step that switches the active tab of the displayed result
\* changes only the active tab: no request is issued and document, result,
\* error, progress value and workflow state stay as they were.
C19_TabSwitchChangesOnlyTab ==
    [][(ResultShown /\ ResultShown' /\ activeTab' # activeTab) =>
          /\ UNCHANGED << selectedFile, isLoading, result, error,
                          uploadProgress, pending, intervals, inputValue >>
          /\ WorkflowState' = WorkflowState]_vars

\* C19 witness: a tab other than Overview is active while a leaked timer
\* has left a non-zero progress value for a tab switch to preserve.
C19_Witness ==
    /\ ResultShown
    /\ activeTab = "resources"
    /\ uploadProgress > 0

\* The declared composition of each tab, in order.
DeclaredComposition(tab) ==
    CASE tab = "overview"    -> <<"medications", "action_items", "lifestyle_tips">>
      [] tab = "medications" -> <<"medications">>
      [] tab = "actions"     -> <<"action_items", "follow_up_instructions",
                                  "emergency_contacts">>
      [] tab = "education"   -> <<"simplified_terms", "lifestyle_tips">>
      [] tab = "resources"   -> <<"cost_savings", "support_resources">>

\* The collection backing a section is present and non-empty.
BackingNonEmpty(data, section) ==
    IF section \in {"cost_savings", "support_resources"}
    THEN /\ data.agent_results # None
         /\ data.agent_results[1].resource # None
         /\ data.agent_results[1].resource[1].result # None
         /\ data.agent_results[1].resource[1].result[1][section]
                \notin {None, Some(<< >>)}
    ELSE /\ data.care_plan # None
         /\ data.care_plan[1][section] \notin {None, Some(<< >>)}

\* The names of the sections in a tab-content element, in order.
SectionNames(content) == [k \in 1..Len(content) |-> content[k].section]

\* C20: for every tab and every payload the rendered sections are the
\* tab's declared composition, in the declared order, restricted to the
\* sections whose backing collection is present and non-empty; with
\* care_plan present and medications absent the Medications tab renders
\* nothing, without an error.
C20_TabRendersDeclaredComposition ==
    ResultShown =>
        LET content == TabContent(result, activeTab)
            expected ==
                SelectSeq(DeclaredComposition(activeTab),
                          LAMBDA section : BackingNonEmpty(result, section))
        IN  /\ ~content.throws
            /\ SectionNames(content.sections) = expected
            /\ (activeTab = "medications" /\ result.care_plan # None
                  /\ result.care_plan[1].medications = None)
                  => content.sections = << >>
            /\ (activeTab \in {"overview", "medications"}
                  /\ result.care_plan # None
                  /\ result.care_plan[1].medications = Some(<<"Lisinopril">>))
                  => content.sections[1] = [section |-> "medications",
                                            items |-> <<"Lisinopril">>]

\* C21: rendering is total over the payloads: whichever optional fields
\* are absent (care_plan, agent_results, resource, result, a section array,
\* a field of a cost-savings entry), the header and the panel of every tab
\* render without throwing.
C21_RenderingIsTotal ==
    ResultShown =>
        /\ PlanMeta(result).confidence \in 0..100
        /\ \A tab \in Tabs : ~TabContent(result, tab).throws

\* C22: in the cost-savings section an entry's generic-availability line is
\* rendered only when the entry's generic_available flag is true and its
\* generic name is present; with the flag true and the name absent the
\* card shows nothing about a generic.
C22_GenericLineNeedsFlagAndName ==
    (ResultShown /\ ~renderCostSavings(result).throws) =>
        \A s \in 1..Len(renderCostSavings(result).sections) :
            LET cards == renderCostSavings(result).sections[s].items
                entries == Get(ResourceField(result, "cost_savings"))
            IN  \A k \in 1..Len(cards) :
                    IsSome(cards[k].generic) <=>
                        /\ entries[k].generic_available = Some(TRUE)
                        /\ IsSome(entries[k].generic_name)

\* C23: in every state that displays a failure (Failed) both recovery
\* actions can be taken and do their work: Try Again runs handleSubmit
\* (with a file selected it clears the error and issues a request, without
\* one it reports the missing file) and Start Over returns to Idle.
C23_FailedOffersRetryAndReset ==
    /\ [](WorkflowState = "Failed" =>
            /\ ENABLED StartOverClick
            /\ (Len(pending) < MaxPending /\ intervals < MaxIntervals)
                  => ENABLED RetryClick)
    /\ [][(WorkflowState = "Failed" /\ StartOverClick)
            => (WorkflowState' = "Idle" /\ IdleCleared')]_vars
    /\ [][(WorkflowState = "Failed" /\ RetryClick)
            => IF Truthy(selectedFile)
               THEN IssuesRequest /\ WorkflowState' = "Submitting"
                    /\ pending'[Len(pending')].file = selectedFile
               ELSE error' = NoFileMessage /\ UNCHANGED pending]_vars

\* C23 witness: a failure of the no-response kind is displayed for the
\* selected document, after an earlier reset.
C23_Witness ==
    /\ WorkflowState = "Failed"
    /\ error = NetworkMessage
    /\ selectedFile = failedFile

\* C24: in every state the Analyze button is enabled if and only if a
\* document is selected and no submission is in flight; it is disabled in
\* the initial state and enabled once a file has been selected there.
C24_AnalyzeEnabledIffSelectedAndIdle ==
    /\ [](AnalyzeEnabled <=> (Truthy(selectedFile) /\ pending = << >>))
    /\ []((AnalyzeEnabled /\ intervals < MaxIntervals) => ENABLED AnalyzeClick)
    /\ []((selectedFile = Null /\ pending = << >>) => ~AnalyzeEnabled)
    /\ [][\A file \in Files :
            (pending = << >> /\ PickerChange(file)) => AnalyzeEnabled']_vars

\* C24 witness: a file was selected with nothing in flight and nothing yet
\* displayed, and the button is enabled.
C24_Witness ==
    /\ AnalyzeEnabled
    /\ WorkflowState = "DocumentSelected"
    /\ failedFile = Null

\* C25: the loading flag is true exactly while a request is outstanding:
\* it turns true when handleSubmit issues a request for the selected
\* document, stays true until that request settles, is false whenever no
\* request is in flight, and no other operation changes it.
C25_LoadingExactlyWhileInFlight ==
    /\ [](isLoading <=> pending # << >>)
    /\ [][(SubmitStep /\ IssuesRequest) => isLoading']_vars
    /\ [][(isLoading' # isLoading) =>
            \/ SubmitStep /\ IssuesRequest
            \/ Settle /\ pending' = << >>]_vars

\* C25 witness: the flag is still true after a reset issued during the
\* flight.
C25_Witness ==
    /\ isLoading
    /\ pending # << >>
    /\ selectedFile = Null

\* The distance between two numbers.
Distance(a, b) == IF a >= b THEN a - b ELSE b - a

\* The value, in thousandths, of a decimal text with one or two decimals.
ValueOf(text) ==
    IF Len(text.decimals) = 1
    THEN text.whole * 1000 + text.decimals[1] * 100
    ELSE text.whole * 1000 + text.decimals[1] * 100 + text.decimals[2] * 10

\* C26: the header shows the confidence as the whole percentage nearest to
\* score x 100 (0.947 as 95) and the processing time with exactly one
\* decimal, nearest to the value (3.2 as 3.2); the cost-savings section
\* shows the total with exactly two decimals, nearest to the value (123.4
\* as 123.40); a missing confidence is shown as 0 and a missing total as
\* 0.00.
C26_DisplayRounding ==
    ResultShown =>
        LET meta == PlanMeta(result)
            savings == renderCostSavings(result).sections[1]
            total == ResourceField(result, "total_potential_savings")
        IN  /\ IsSome(result.confidence_score) =>
                Distance(meta.confidence * 10, Get(result.confidence_score)) <= 5
            /\ result.confidence_score = Some(Thousandths(0, 947)) =>
                meta.confidence = 95
            /\ ~IsSome(result.confidence_score) => meta.confidence = 0
            /\ IsSome(result.processing_time_seconds) =>
                /\ IsSome(meta.processed)
                /\ Len(Get(meta.processed).decimals) = 1
                /\ Get(meta.processed).decimals[1] \in 0..9
                /\ Distance(ValueOf(Get(meta.processed)),
                            Get(result.processing_time_seconds)) <= 50
            /\ result.processing_time_seconds = Some(Thousandths(3, 200)) =>
                meta.processed = Some([whole |-> 3, decimals |-> << 2 >>])
            /\ IsSome(total) =>
                /\ Len(savings.total.decimals) = 2
                /\ \A k \in 1..2 : savings.total.decimals[k] \in 0..9
                /\ Distance(ValueOf(savings.total), Get(total)) <= 5
            /\ total = Some(Thousandths(123, 400)) =>
                savings.total = [whole |-> 123, decimals |-> << 4, 0 >>]
            /\ ~IsSome(total) =>
                savings.total = [whole |-> 0, decimals |-> << 0, 0 >>]

\* C26 witness: the care plan is displayed for a payload without a
\* confidence score whose other two numbers are the quoted ones.
C26_Witness ==
    /\ ResultShown
    /\ activeTab = "resources"
    /\ ~IsSome(result.confidence_score)
    /\ result.processing_time_seconds = Some(Thousandths(3, 200))
    /\ ResourceField(result, "total_potential_savings") = Some(Thousandths(123, 400))

\* C27: while a submission is in flight neither a result nor an error is
\* present: handleSubmit clears both before issuing the request, and no
\* step taken during the flight (selection, drop, reset, tick, tab) sets
\* either before the request settles.
C27_NothingDisplayedInFlight ==
    /\ [](pending # << >> => (result = NoResult /\ error = Null))
    /\ [][(SubmitStep /\ IssuesRequest) =>
            (result' = NoResult /\ error' = Null)]_vars
    /\ [][(pending # << >> /\ pending' = pending) =>
            (result' = NoResult /\ error' = Null)]_vars

\* C27 witness: a retry is in flight: the error its predecessor left was
\* displayed and has been cleared.
C27_Witness ==
    /\ pending # << >>
    /\ failedFile # Null
    /\ uploadProgress > 0

\* C28: a file chosen through the picker is accepted whatever its media
\* type (only no file at all is ignored), whereas the same file dropped on
\* the zone is accepted only if its media type begins with "image/".
C28_PickerUnfilteredDropFiltered ==
    [][\A file \in FileOrNone :
          /\ PickerChange(file) =>
                IF file = Null THEN UNCHANGED selectedFile
                ELSE selectedFile' = file
          /\ Drop(file) =>
                IF file # Null /\ StartsWith(FileType(file), ImagePrefix)
                THEN selectedFile' = file
                ELSE UNCHANGED << selectedFile, result, error >>]_vars

\* C28 witness: a file that is not an image, which a drop would have
\* refused, is the selected document.
C28_Witness ==
    /\ selectedFile \in Files
    /\ ~StartsWith(FileType(selectedFile), ImagePrefix)
    /\ inputValue = selectedFile

\* C29: whenever a care plan is displayed a document is selected: after a
\* reset issued while a request is in flight, the late response installs
\* neither a result nor an error on a page that has no selected document.
C29_ResultImpliesDocument ==
    /\ [](ResultShown => Truthy(selectedFile))
    /\ [][Settle =>
            ((ResultShown' \/ ErrorShown') => Truthy(selectedFile'))]_vars

\* C30: whenever a care plan is displayed it answers a submission of the
\* currently selected document: a response is installed only while the
\* document its request carried is still the selected one, and the
\* selection does not change under a displayed result.
C30_ResultBelongsToSelectedDocument ==
    /\ [][\A i \in 1..Len(pending), data \in Payloads :
            ResponseSuccess(i, data) => pending[i].file = selectedFile']_vars
    /\ [][(ResultShown /\ ResultShown') => UNCHANGED selectedFile]_vars

\* C31: a result and an error are never present together: in every state
\* at most one of result and error is set, so the care plan view and the
\* error panel are never displayed at the same time.
C31_ResultAndErrorExclusive ==
    ~(ResultShown /\ ErrorShown)

\* C31 witness: a care plan is displayed after an earlier submission of
\* the same session failed and showed its error.
C31_Witness ==
    /\ ResultShown
    /\ failedFile # Null
    /\ error = Null

\* C32: whenever the error panel is displayed a document is selected, so
\* Try Again always issues a request: the no-file branch of handleSubmit
\* ("Please select a file first.") is never taken.
C32_ErrorPanelImpliesDocument ==
    /\ [](ErrorShown => Truthy(selectedFile))
    /\ [](error # NoFileMessage)
    /\ [][RetryClick => IssuesRequest]_vars

====
